---- MODULE Spec2Model ----
(***************************************************************************)
(* Time-temperature superposition engine (class TTS of tts_core.py).       *)
(*                                                                         *)
(* Number model.  Temperatures and model constants are integers.  A        *)
(* logarithm log_aT is kept in whole decades (the quotient of the closed   *)
(* form, rounded toward zero).  A shift factor aT = 10**log_aT is the      *)
(* fixed-point integer 10^(log_aT + MaxExp): One = 10^MaxExp is 1.0, Zero  *)
(* is the float 0.0 an underflow produces, Inf is the float inf.  MaxExp   *)
(* stands for the decimal exponent range of a double (308).                *)
(***************************************************************************)
EXTENDS Integers, Sequences, FiniteSets, TLC

VARIABLES tts, last, overrides, calls, uploads, session, own, request

vars == <<tts, last, overrides, calls, uploads, session, own, request>>

\* Python None held by a numeric attribute (T_ref, WLF_C1, WLF_C2, Ea).
None == 0 - 9999
\* numpy nan in a spreadsheet cell.
NaN == 0 - 8888

----------------------------------------------------------------------------
(* Floats *)

MaxExp == 2

One == 10 ^ MaxExp
Zero == 0
Inf == 10 ^ (2 * MaxExp + 1)

\* Float division a / b for b # 0, kept in whole units (rounded toward zero).
Quot(a, b) ==
  LET aa == IF a < 0 THEN 0 - a ELSE a
      bb == IF b < 0 THEN 0 - b ELSE b
      q  == aa \div bb
  IN IF (a < 0) = (b < 0) THEN q ELSE 0 - q

\* 10 ** x.  A Python float raises OverflowError above the double range
\* (PowOverflows); a numpy float64 returns inf there.  Both underflow to 0.0.
PowOverflows(x) == x > MaxExp

Pow10(x) ==
  IF x > MaxExp THEN Inf
  ELSE IF x < 0 - MaxExp THEN Zero
  ELSE 10 ^ (x + MaxExp)

\* np.log10 of a shift factor: -inf and inf are the values below and above
\* every finite logarithm.
Log10(a) ==
  IF a = Zero THEN 0 - (MaxExp + 1)
  ELSE IF a = Inf THEN MaxExp + 1
  ELSE CHOOSE x \in (0 - MaxExp)..MaxExp : 10 ^ (x + MaxExp) = a

----------------------------------------------------------------------------
(* Dictionaries: a table is a function whose DOMAIN is the key set. *)

EmptyTable == [k \in {} |-> 0]

Put(t, k, v) == [x \in (DOMAIN t) \cup {k} |-> IF x = k THEN v ELSE t[x]]

----------------------------------------------------------------------------
(* Files of the upload folder: a stem (characters) and a content. *)

\* Characters in ASCII order: '-' < '.' < digits < letters.
Chars == <<"-", ".", "0", "1", "2", "3", "5", "7", "a", "b">>

Digits == {"0", "1", "2", "3", "5", "7"}

CharOrd(c) == CHOOSE i \in 1..Len(Chars) : Chars[i] = c

DigitVal(c) ==
  IF c = "0" THEN 0 ELSE IF c = "1" THEN 1 ELSE IF c = "2" THEN 2 ELSE IF c = "3" THEN 3
  ELSE IF c = "5" THEN 5 ELSE 7

\* str < str of Python, on character sequences.
RECURSIVE StrLess(_, _)
StrLess(s, t) ==
  IF t = <<>> THEN FALSE
  ELSE IF s = <<>> THEN TRUE
  ELSE IF Head(s) # Head(t) THEN CharOrd(Head(s)) < CharOrd(Head(t))
  ELSE StrLess(Tail(s), Tail(t))

\* The file name of a stem: the stem and its suffix.
FileName(stem) == stem \o <<".">>

\* float() of the digits of s from position i on, after the value acc.
RECURSIVE DigitRun(_, _, _)
DigitRun(s, i, acc) ==
  IF i <= Len(s) /\ s[i] \in Digits
  THEN DigitRun(s, i + 1, 10 * acc + DigitVal(s[i]))
  ELSE acc

\* re.findall(r'-?\d+\.?\d*', filename)[0] as a float, or None: the leftmost
\* position where the pattern matches.  The stems of this model hold no '.'.
RECURSIVE ExtractFrom(_, _)
ExtractFrom(s, i) ==
  IF i > Len(s) THEN None
  ELSE IF s[i] = "-" /\ i + 1 <= Len(s) /\ s[i + 1] \in Digits
       THEN 0 - DigitRun(s, i + 1, 0)
  ELSE IF s[i] \in Digits THEN DigitRun(s, i, 0)
  ELSE ExtractFrom(s, i + 1)

_extract_temperature(filename) == ExtractFrom(filename, 1)

\* Contents of a file.  "rows": a sheet with two numeric columns, rows of
\* <<omega, modulus>>.  "one_column": a sheet with fewer than two columns.
\* "unreadable": pd.read_excel raises.
GoodRows == << <<1, 5>>, <<2, 6>> >>
HoleRows == << <<1, NaN>>, <<2, 7>>, <<NaN, 8>> >>
NaNRows  == << <<NaN, NaN>>, <<NaN, 6>> >>

File(stem, kind, rows) == [stem |-> stem, kind |-> kind, rows |-> rows]

\* Files that hold a sheet with two numeric columns under a label with a
\* number, and files that yield no curve: a label with no number, a sheet with
\* one column, a file that cannot be read.
CurveFiles ==
  { File(<<"1", "5">>, "rows", GoodRows),
    File(<<"2", "5">>, "rows", HoleRows),
    File(<<"3", "5">>, "rows", NaNRows),
    File(<<"-", "2", "7", "3">>, "rows", GoodRows) }

BadFiles ==
  { File(<<"a", "b">>, "rows", GoodRows),
    File(<<"5", "5">>, "one_column", <<>>),
    File(<<"7", "5">>, "unreadable", <<>>) }

Files == CurveFiles \cup BadFiles

MaxBatch == 2

\* The folders load_excel can be pointed at: of any files, and of files with
\* numeric sheets alone.
Batches == {b \in SUBSET Files : Cardinality(b) <= MaxBatch}
CurveBatches == {b \in SUBSET CurveFiles : Cardinality(b) <= MaxBatch}

\* sorted(files): ascending by file name.
RECURSIVE SortFiles(_)
SortFiles(fs) ==
  IF fs = {} THEN <<>>
  ELSE LET f == CHOOSE x \in fs :
                  \A y \in fs \ {x} : StrLess(FileName(x.stem), FileName(y.stem))
       IN <<f>> \o SortFiles(fs \ {f})

\* sorted(files) of every folder, tabulated.
SortedFiles == [b \in Batches |-> SortFiles(b)]

----------------------------------------------------------------------------
(* The engine: one TTS object.  data is the ordered dict of curves, a       *)
(* sequence of entries in insertion order.                                  *)

TTS(T_ref) ==
  [ T_ref |-> T_ref,
    data |-> <<>>,
    shift_factors |-> EmptyTable,
    shift_factors_manual |-> EmptyTable,
    shift_method |-> "None",
    WLF_C1 |-> None,
    WLF_C2 |-> None,
    Ea |-> None,
    manual_adjustment_done |-> FALSE ]

\* The keys of self.data, and in iteration order.
KeySeq(data) == [i \in 1..Len(data) |-> data[i].T]
Keys(data) == {data[i].T : i \in 1..Len(data)}

\* self.data[T]
Curve(data, T) == LET i == CHOOSE j \in 1..Len(data) : data[j].T = T IN data[i]

\* self.data[T] = {'omega': omega, 'modulus': modulus}: an existing key keeps
\* its place, a new key goes last.
DataPut(data, T, omega, modulus) ==
  LET e == [T |-> T, omega |-> omega, modulus |-> modulus]
  IN IF T \in Keys(data)
     THEN [i \in 1..Len(data) |-> IF data[i].T = T THEN e ELSE data[i]]
     ELSE Append(data, e)

\* mask = ~(np.isnan(omega) | np.isnan(modulus)); omega[mask], modulus[mask]
KeptRows(rows) == SelectSeq(rows, LAMBDA r : ~(r[1] = NaN \/ r[2] = NaN))
Column(rows, c) == [i \in 1..Len(rows) |-> rows[i][c]]

\* One pass of the loop over the sorted files.
LoadFile(data, file) ==
  LET temperature == _extract_temperature(file.stem)
  IN IF temperature = None THEN data
     ELSE IF file.kind = "unreadable" THEN data
     ELSE IF file.kind = "one_column" THEN data
     ELSE LET kept == KeptRows(file.rows)
          IN DataPut(data, temperature, Column(kept, 1), Column(kept, 2))

RECURSIVE LoadLoop(_, _)
LoadLoop(data, files) ==
  IF files = <<>> THEN data
  ELSE LoadLoop(LoadFile(data, Head(files)), Tail(files))

\* load_excel: the engine after the call and the exception raised ("None"
\* when the call returns).
load_excel(self, folder) ==
  IF folder = {}
  THEN [self |-> self, raised |-> "FileNotFoundError"]
  ELSE LET files == IF folder \in Batches THEN SortedFiles[folder] ELSE SortFiles(folder)
           data == LoadLoop(self.data, files)
       IN [self |-> [self EXCEPT !.data = data],
           raised |-> IF data = <<>> THEN "ValueError" ELSE "None"]

----------------------------------------------------------------------------
(* Closed forms *)

\* 273.15 of T_K = T + 273.15, and R * ln(10) of the Arrhenius closed form
\* (8.314 * 2.3026), in whole units.
KelvinOffset == 273
RLn10 == 19

\* Variant of RefFactor: the logarithm 0 is stored where the factor 1.0 belongs.
RefFactorStoresLog == Zero

\* self.shift_factors[T] = 1.0
RefFactor == One

\* Lines 97-98 on Python floats, for T # T_ref: the exception raised ("None"
\* when there is none) and the factor.
WLFPython(T, T_ref, C1, C2) ==
  LET den == C2 + T - T_ref
      log_aT == Quot((0 - C1) * (T - T_ref), den)
  IN IF den = 0 THEN [raised |-> "ZeroDivisionError", aT |-> Zero]
     ELSE IF PowOverflows(log_aT) THEN [raised |-> "OverflowError", aT |-> Zero]
     ELSE [raised |-> "None", aT |-> Pow10(log_aT)]

\* Lines 110-111 on numpy floats (the fitted constants), for T # T_ref: a zero
\* denominator gives an infinite logarithm, an overflow gives inf.  The fitted
\* C1 of this model is not 0, so 0/0 does not occur.
WLFNumpy(T, T_ref, C1, C2) ==
  LET den == C2 + T - T_ref
      num == (0 - C1) * (T - T_ref)
  IN IF den = 0 THEN (IF num > 0 THEN Inf ELSE Zero)
     ELSE Pow10(Quot(num, den))

\* Lines 153-156, for T # T_ref: 1/T_K and 1/T_ref_K are Python divisions,
\* log_aT is a numpy float (np.log(10) is one), so 10**log_aT never raises.
ArrheniusForm(T, T_ref, Ea) ==
  LET T_K == T + KelvinOffset
      T_ref_K == T_ref + KelvinOffset
  IN IF T_K = 0 \/ T_ref_K = 0 THEN [raised |-> "ZeroDivisionError", aT |-> Zero]
     ELSE [raised |-> "None",
           aT |-> Pow10(Quot(Ea * (T_ref_K - T_K), RLn10 * T_K * T_ref_K))]

\* for T in self.data: ... of lines 93-98: the table after the loop, or after
\* the pass that raised.
RECURSIVE WLFLoop(_, _, _, _, _)
WLFLoop(keys, sf, T_ref, C1, C2) ==
  IF keys = <<>> THEN [sf |-> sf, raised |-> "None"]
  ELSE LET T == Head(keys)
       IN IF T = T_ref
          THEN WLFLoop(Tail(keys), Put(sf, T, RefFactor), T_ref, C1, C2)
          ELSE LET r == WLFPython(T, T_ref, C1, C2)
               IN IF r.raised # "None" THEN [sf |-> sf, raised |-> r.raised]
                  ELSE WLFLoop(Tail(keys), Put(sf, T, r.aT), T_ref, C1, C2)

\* Lines 106-111.
RECURSIVE WLFFitLoop(_, _, _, _, _)
WLFFitLoop(keys, sf, T_ref, C1_fit, C2_fit) ==
  IF keys = <<>> THEN sf
  ELSE LET T == Head(keys)
           aT == IF T = T_ref THEN RefFactor ELSE WLFNumpy(T, T_ref, C1_fit, C2_fit)
       IN WLFFitLoop(Tail(keys), Put(sf, T, aT), T_ref, C1_fit, C2_fit)

\* Lines 149-156 and 163-170.
RECURSIVE ArrheniusLoop(_, _, _, _)
ArrheniusLoop(keys, sf, T_ref, Ea) ==
  IF keys = <<>> THEN [sf |-> sf, raised |-> "None"]
  ELSE LET T == Head(keys)
       IN IF T = T_ref
          THEN ArrheniusLoop(Tail(keys), Put(sf, T, RefFactor), T_ref, Ea)
          ELSE LET r == ArrheniusForm(T, T_ref, Ea)
               IN IF r.raised # "None" THEN [sf |-> sf, raised |-> r.raised]
                  ELSE ArrheniusLoop(Tail(keys), Put(sf, T, r.aT), T_ref, Ea)

\* len([t for t in self.data if t != self.T_ref])
NonRef(self) == {T \in Keys(self.data) : T # self.T_ref}

----------------------------------------------------------------------------
(* Regression.  The solvers are numerical: an outcome is an exception or    *)
(* constants, chosen by the caller of the operator among the outcomes.      *)

SolverRaised == [raised |-> TRUE, C1 |-> None, C2 |-> None, Ea |-> None]
WLFSolved(C1, C2) == [raised |-> FALSE, C1 |-> C1, C2 |-> C2, Ea |-> None]
ArrheniusSolved(Ea) == [raised |-> FALSE, C1 |-> None, C2 |-> None, Ea |-> Ea]

\* _fit_WLF_constants: curve_fit checks its data for inf and nan and raises
\* ValueError; np.log10(0.0) is -inf.  Otherwise the solver's outcome.
_fit_WLF_constants(self, solver) ==
  IF \E T \in NonRef(self) : self.shift_factors[T] \in {Zero, Inf}
  THEN SolverRaised
  ELSE solver

\* _fit_Arrhenius_Ea: np.polyfit, the solver's outcome.
_fit_Arrhenius_Ea(self, solver) == solver

----------------------------------------------------------------------------
(* Shift operations.  Each returns the engine after the call, the exception *)
(* raised ("None" when the call returns) and what became of the fit:        *)
(* "none" (not attempted), "raised" or "ok".                                *)

\* Variants of StartShift: a shift that starts from a clean engine and drops
\* the manual table; a shift that does not record its method.
StartShiftDropsManual(self, method, sf) ==
  [self EXCEPT !.shift_method = method, !.shift_factors = sf,
               !.shift_factors_manual = EmptyTable, !.manual_adjustment_done = FALSE]

StartShiftKeepsMethod(self, method, sf) == [self EXCEPT !.shift_factors = sf]

\* self.shift_method = method and the table the first loop leaves.
StartShift(self, method, sf) ==
  [self EXCEPT !.shift_method = method, !.shift_factors = sf]

\* Variant of WLFReport: the constants are not stored (an except branch that
\* only passes).
WLFReportNothing(self, C1, C2) == self

\* self.WLF_C1 = C1; self.WLF_C2 = C2
WLFReport(self, C1, C2) == [self EXCEPT !.WLF_C1 = C1, !.WLF_C2 = C2]

\* self.Ea = Ea
ArrheniusReport(self, Ea) == [self EXCEPT !.Ea = Ea]

shift_WLF(self, C1, C2, fit_constants, solver) ==
  IF self.T_ref = None
  THEN [self |-> self, raised |-> "ValueError", fit |-> "none"]
  ELSE
    LET first == WLFLoop(KeySeq(self.data), self.shift_factors, self.T_ref, C1, C2)
        s1 == StartShift(self, "WLF", first.sf)
    IN IF first.raised # "None"
       THEN [self |-> s1, raised |-> first.raised, fit |-> "none"]
       ELSE IF fit_constants /\ Cardinality(NonRef(s1)) >= 2
       THEN LET popt == _fit_WLF_constants(s1, solver)
            IN IF popt.raised
               THEN [self |-> WLFReport(s1, C1, C2), raised |-> "None", fit |-> "raised"]
               ELSE [self |-> [WLFReport(s1, popt.C1, popt.C2) EXCEPT
                                 !.shift_factors =
                                    WLFFitLoop(KeySeq(s1.data), s1.shift_factors,
                                               s1.T_ref, popt.C1, popt.C2)],
                     raised |-> "None", fit |-> "ok"]
       ELSE [self |-> WLFReport(s1, C1, C2), raised |-> "None", fit |-> "none"]

shift_Arrhenius(self, Ea, fit_Ea, solver) ==
  IF self.T_ref = None
  THEN [self |-> self, raised |-> "ValueError", fit |-> "none"]
  ELSE
    LET first == ArrheniusLoop(KeySeq(self.data), self.shift_factors, self.T_ref, Ea)
        s1 == StartShift(self, "Arrhenius", first.sf)
    IN IF first.raised # "None"
       THEN [self |-> s1, raised |-> first.raised, fit |-> "none"]
       ELSE IF fit_Ea /\ Cardinality(NonRef(s1)) >= 2
       THEN LET fitted == _fit_Arrhenius_Ea(s1, solver)
            IN IF fitted.raised
               THEN [self |-> ArrheniusReport(s1, Ea), raised |-> "None", fit |-> "raised"]
               ELSE [self |-> [ArrheniusReport(s1, fitted.Ea) EXCEPT
                                 !.shift_factors =
                                    ArrheniusLoop(KeySeq(s1.data), s1.shift_factors,
                                                  s1.T_ref, fitted.Ea).sf],
                     raised |-> "None", fit |-> "ok"]
       ELSE [self |-> ArrheniusReport(s1, Ea), raised |-> "None", fit |-> "none"]

----------------------------------------------------------------------------
(* Manual override and the assembled view *)

\* Variant of update_manual_shift: the value is applied on top of the factor
\* the manual table already holds for the temperature.
update_manual_shift_relative(self, temperature, log_aT_value) ==
  IF temperature \notin Keys(self.data)
  THEN [self |-> self, raised |-> "None"]
  ELSE
    LET manual == IF DOMAIN self.shift_factors_manual = {}
                  THEN self.shift_factors
                  ELSE self.shift_factors_manual
        base == IF temperature \in DOMAIN manual THEN Log10(manual[temperature]) ELSE 0
    IN IF PowOverflows(log_aT_value)
       THEN [self |-> [self EXCEPT !.shift_factors_manual = manual],
             raised |-> "OverflowError"]
       ELSE [self |-> [self EXCEPT
                         !.shift_factors_manual =
                            Put(manual, temperature, Pow10(base + log_aT_value)),
                         !.manual_adjustment_done = TRUE],
             raised |-> "None"]

update_manual_shift(self, temperature, log_aT_value) ==
  IF temperature \notin Keys(self.data)
  THEN [self |-> self, raised |-> "None"]
  ELSE
    LET manual == IF DOMAIN self.shift_factors_manual = {}
                  THEN self.shift_factors
                  ELSE self.shift_factors_manual
    IN IF PowOverflows(log_aT_value)
       THEN [self |-> [self EXCEPT !.shift_factors_manual = manual],
             raised |-> "OverflowError"]
       ELSE [self |-> [self EXCEPT
                         !.shift_factors_manual = Put(manual, temperature, Pow10(log_aT_value)),
                         !.manual_adjustment_done = TRUE],
             raised |-> "None"]

\* factors = self.shift_factors_manual if self.manual_adjustment_done
\*           else self.shift_factors
Factors(self) ==
  IF self.manual_adjustment_done THEN self.shift_factors_manual ELSE self.shift_factors

\* omega * aT on numpy floats, in the fixed point of aT.
TimesLeavesOmega(omega, aT) == omega * One

Times(omega, aT) == IF aT = Inf THEN Inf ELSE omega * aT

get_master_curve_data(self) ==
  LET factors == Factors(self)
      shown == Keys(self.data) \cap DOMAIN factors
  IN [ raised |-> "None",
       original |-> [T \in Keys(self.data) |->
                       [omega |-> Curve(self.data, T).omega,
                        modulus |-> Curve(self.data, T).modulus]],
       shifted |-> [T \in shown |->
                       [omega |-> [i \in 1..Len(Curve(self.data, T).omega) |->
                                     Times(Curve(self.data, T).omega[i], factors[T])],
                        modulus |-> Curve(self.data, T).modulus]],
       shift_factors |-> [T \in shown |->
                            [aT |-> factors[T], log_aT |-> Log10(factors[T])]] ]


\* sorted(keys): ascending.
RECURSIVE Sorted(_)
Sorted(S) ==
  IF S = {} THEN <<>>
  ELSE LET m == CHOOSE x \in S : \A y \in S : x <= y
       IN <<m>> \o Sorted(S \ {m})

\* The rows all_data gets for temperature T (lines 241-250).
SampleRows(self, T, aT) ==
  [i \in 1..Len(Curve(self.data, T).omega) |->
     [T |-> T,
      omega |-> Curve(self.data, T).omega[i],
      modulus |-> Curve(self.data, T).modulus[i],
      aT |-> aT,
      log_aT |-> Log10(aT),
      shifted |-> Times(Curve(self.data, T).omega[i], aT)]]

RECURSIVE MasterRows(_, _, _)
MasterRows(self, factors, temps) ==
  IF temps = <<>> THEN <<>>
  ELSE LET T == Head(temps)
           aT == IF T \in DOMAIN factors THEN factors[T] ELSE One
       IN SampleRows(self, T, aT) \o MasterRows(self, factors, Tail(temps))

\* export_to_excel: the 'Master Curve Data' and 'Shift Factors' sheets.
export_to_excel(self) ==
  LET factors == Factors(self)
      temps == Sorted(DOMAIN factors)
  IN [ raised |-> "None",
       master |-> MasterRows(self, factors, Sorted(Keys(self.data))),
       shift |-> [i \in 1..Len(temps) |->
                    [T |-> temps[i], aT |-> factors[temps[i]],
                     log_aT |-> Log10(factors[temps[i]])]] ]

----------------------------------------------------------------------------
(* The web application: one upload folder for the process, one session per  *)
(* client.  A dict of the session is a sequence of entries in insertion     *)
(* order, each with its key, a string.                                      *)

\* str(T) of a float with no fraction: sign, digits, ".0".
DigitChar(d) == CHOOSE c \in Digits : DigitVal(c) = d

RECURSIVE DigitsOf(_)
DigitsOf(n) ==
  IF n < 10 THEN <<DigitChar(n)>>
  ELSE DigitsOf(n \div 10) \o <<DigitChar(n % 10)>>

Str(T) ==
  (IF T < 0 THEN <<"-">> \o DigitsOf(0 - T) ELSE DigitsOf(T)) \o <<".", "0">>

\* float(temp_str) of such a string: the fraction digits are zeros.
Float(temp_str) ==
  IF Head(temp_str) = "-" THEN 0 - DigitRun(temp_str, 2, 0)
  ELSE DigitRun(temp_str, 1, 0)

\* d[key] = entry on a dict: an existing key keeps its place.
DictKeys(d) == {d[i].key : i \in 1..Len(d)}
DictGet(d, key) == d[CHOOSE i \in 1..Len(d) : d[i].key = key]
DictPut(d, entry) ==
  IF entry.key \in DictKeys(d)
  THEN [i \in 1..Len(d) |-> IF d[i].key = entry.key THEN entry ELSE d[i]]
  ELSE Append(d, entry)

\* session['tts_data'] when the key is absent, and as analyze builds it
\* (lines 269-287).
NoData ==
  [present |-> FALSE, reference_temperature |-> None, method |-> "None",
   original_data |-> <<>>, shift_factors |-> <<>>]

TTSData(engine, ref_temp, method) ==
  LET keys == KeySeq(engine.data)
      shifted == SelectSeq(keys, LAMBDA T : T \in DOMAIN engine.shift_factors)
  IN [present |-> TRUE,
      reference_temperature |-> ref_temp,
      method |-> method,
      original_data |-> [i \in 1..Len(keys) |->
                           [key |-> Str(keys[i]),
                            omega |-> engine.data[i].omega,
                            modulus |-> engine.data[i].modulus]],
      shift_factors |-> [i \in 1..Len(shifted) |->
                           [key |-> Str(shifted[i]),
                            aT |-> engine.shift_factors[shifted[i]],
                            log_aT |-> Log10(engine.shift_factors[shifted[i]])]]]

NoSession == [tts_data |-> NoData, last_analysis |-> NoData]

\* upload_files: every file is saved in UPLOAD_FOLDER under its name, over a
\* file of that name.
upload_files(folder, files) ==
  [folder |-> IF files = {} THEN folder
              ELSE {f \in folder : \A g \in files : g.stem # f.stem} \cup files,
   status |-> IF files = {} THEN 400 ELSE 200]

\* analyze: a new engine on the reference temperature of the request, loaded
\* from UPLOAD_FOLDER and shifted; the session keeps the curves and factors.
analyze(sess, folder, data, solver) ==
  LET loaded == load_excel(TTS(data.reference_temperature), folder)
      shift == IF data.method = "WLF"
               THEN shift_WLF(loaded.self, data.C1, data.C2, data.fit, solver)
               ELSE shift_Arrhenius(loaded.self, data.Ea, data.fit, solver)
  IN IF loaded.raised # "None" THEN [session |-> sess, status |-> 500, fit |-> "none"]
     ELSE IF shift.raised # "None" THEN [session |-> sess, status |-> 500, fit |-> shift.fit]
     ELSE LET d == TTSData(shift.self, data.reference_temperature, data.method)
          IN [session |-> [tts_data |-> d, last_analysis |-> d],
              status |-> 200, fit |-> shift.fit]

\* update_shift_factor: tts_data['shift_factors'][str(temperature)] = {...}
update_shift_factor(sess, temperature, log_aT) ==
  IF ~sess.tts_data.present THEN [session |-> sess, status |-> 400]
  ELSE IF PowOverflows(log_aT) THEN [session |-> sess, status |-> 500]
  ELSE [session |-> [sess EXCEPT !.tts_data.shift_factors =
                       DictPut(@, [key |-> Str(temperature), aT |-> Pow10(log_aT),
                                   log_aT |-> log_aT])],
        status |-> 200]

\* The rows of one temperature of the payload (lines 506-519).
PayloadRows(entry, aT) ==
  [i \in 1..Len(entry.omega) |->
     [T |-> Float(entry.key),
      omega |-> entry.omega[i],
      modulus |-> entry.modulus[i],
      aT |-> aT,
      shifted |-> Times(entry.omega[i], aT)]]

RECURSIVE PayloadMaster(_, _)
PayloadMaster(original_data, shift_factors) ==
  IF original_data = <<>> THEN <<>>
  ELSE LET entry == Head(original_data)
           aT == IF entry.key \in DictKeys(shift_factors)
                 THEN DictGet(shift_factors, entry.key).aT ELSE One
       IN PayloadRows(entry, aT) \o PayloadMaster(Tail(original_data), shift_factors)

\* export_manual_results: the 'Master Curve Data' and 'Shift Factors' sheets
\* of the payload.
export_manual_results(data) ==
  [ master |-> PayloadMaster(data.original_data, data.shift_factors),
    shift |-> [i \in 1..Len(data.shift_factors) |->
                 [T |-> Float(data.shift_factors[i].key),
                  aT |-> data.shift_factors[i].aT,
                  log_aT |-> data.shift_factors[i].log_aT]] ]

----------------------------------------------------------------------------
(* The state machine: one engine and the calls made on it.  last describes  *)
(* the latest call; overrides is the history of the overrides recorded:     *)
(* the value of the latest successful override of each temperature.         *)

\* The calls made on one engine in a run of the model.
MaxCalls == 3

TRefs == {None, 25}
C1s == {2, 8}
C2s == {10, 20}
EaVals == {400000, 800000}
OverrideTemps == {25, 35, 99}
OverrideLogs == {1, MaxExp + 1}

WLFSolverOutcomes == {SolverRaised, WLFSolved(2, 10), WLFSolved(8, 20)}
ArrheniusSolverOutcomes == {SolverRaised} \cup {ArrheniusSolved(e) : e \in EaVals}

\* The latest call: its name, the exception it raised, its arguments, what
\* became of the fit, the labels of the files of the folder read,
\* and whether it repeats the override made just before it.
Call(op, raised) ==
  [op |-> op, raised |-> raised, T |-> None, v |-> None, C1 |-> None, C2 |-> None,
   Ea |-> None, fit_flag |-> FALSE, fit |-> "none", folder |-> {},
   again |-> FALSE]

\* The clients of the web application, the files they upload and the
\* requests they make.
Sessions == {"s1", "s2"}
AppFiles == {f \in CurveFiles : Head(f.stem) # "-"}
UploadBatches == {b \in SUBSET AppFiles : Cardinality(b) <= MaxBatch}

AnalyzeData ==
  { [reference_temperature |-> 25, method |-> "WLF", C1 |-> 8, C2 |-> 20,
     Ea |-> None, fit |-> FALSE],
    [reference_temperature |-> 25, method |-> "WLF", C1 |-> 2, C2 |-> 10,
     Ea |-> None, fit |-> TRUE],
    [reference_temperature |-> 25, method |-> "Arrhenius", C1 |-> None, C2 |-> None,
     Ea |-> 400000, fit |-> FALSE] }

UpdateTemps == {25, 77}
UpdateLogs == {1}

\* The orders in which a client can send the entries of a dict.
Orders(d) ==
  LET n == Len(d)
      perms == {q \in [1..n -> 1..n] : \A i, j \in 1..n : q[i] = q[j] => i = j}
  IN {[i \in 1..n |-> d[q[i]]] : q \in perms}

\* The latest request: its route, its session, the status of the answer, the
\* JSON body sent, the solver outcome and what became of the fit, and the
\* master sheet written.
Request(op, sid, status) ==
  [op |-> op, sid |-> sid, status |-> status, data |-> NoData, params |-> <<>>,
   solver |-> SolverRaised, fit |-> "none", master |-> <<>>]

Init ==
  /\ tts \in {TTS(T) : T \in TRefs}
  /\ last = Call("__init__", "None")
  /\ overrides = EmptyTable
  /\ calls = 0
  /\ uploads = {}
  /\ session = [s \in Sessions |-> NoSession]
  /\ own = [s \in Sessions |-> {}]
  /\ request = Request("none", "none", 200)

LoadFrom(folders) ==
  \E folder \in folders :
    LET r == load_excel(tts, folder)
    IN /\ tts' = r.self
       /\ last' = [Call("load_excel", r.raised) EXCEPT
                     !.folder = {f.stem : f \in folder}]
       /\ UNCHANGED overrides

\* load_excel on a folder of numeric sheets; on a folder of any files.
LoadExcel == LoadFrom(CurveBatches)

Ingest == LoadFrom(Batches)

ShiftWLF ==
  \E C1 \in C1s, C2 \in C2s, fit_constants \in BOOLEAN, solver \in WLFSolverOutcomes :
    LET r == shift_WLF(tts, C1, C2, fit_constants, solver)
    IN /\ r.fit = "none" => solver = SolverRaised
       /\ tts' = r.self
       /\ last' = [Call("shift_WLF", r.raised) EXCEPT
                     !.C1 = C1, !.C2 = C2, !.fit_flag = fit_constants, !.fit = r.fit]
       /\ UNCHANGED overrides

ShiftArrhenius ==
  \E Ea \in EaVals, fit_Ea \in BOOLEAN, solver \in ArrheniusSolverOutcomes :
    LET r == shift_Arrhenius(tts, Ea, fit_Ea, solver)
    IN /\ r.fit = "none" => solver = SolverRaised
       /\ tts' = r.self
       /\ last' = [Call("shift_Arrhenius", r.raised) EXCEPT
                     !.Ea = Ea, !.fit_flag = fit_Ea, !.fit = r.fit]
       /\ UNCHANGED overrides

UpdateManualShift ==
  \E temperature \in OverrideTemps, log_aT_value \in OverrideLogs :
    LET r == update_manual_shift(tts, temperature, log_aT_value)
    IN /\ tts' = r.self
       /\ last' = [Call("update_manual_shift", r.raised) EXCEPT
                     !.T = temperature, !.v = log_aT_value,
                     !.again = (last.op = "update_manual_shift" /\ last.T = temperature
                                /\ last.v = log_aT_value)]
       /\ overrides' = IF temperature \in Keys(tts.data) /\ r.raised = "None"
                       THEN Put(overrides, temperature, Pow10(log_aT_value))
                       ELSE overrides

GetMasterCurveData ==
  /\ last' = Call("get_master_curve_data", get_master_curve_data(tts).raised)
  /\ UNCHANGED <<tts, overrides>>

ExportToExcel ==
  /\ last' = Call("export_to_excel", export_to_excel(tts).raised)
  /\ UNCHANGED <<tts, overrides>>

\* One more call is made on the engine.
Called ==
  /\ calls < MaxCalls /\ calls' = calls + 1
  /\ UNCHANGED <<uploads, session, own, request>>

\* The requests of the web application.
Upload ==
  \E s \in Sessions, files \in UploadBatches :
    LET r == upload_files(uploads, files)
    IN /\ uploads' = r.folder
       /\ own' = [own EXCEPT ![s] = upload_files(own[s], files).folder]
       /\ request' = Request("upload", s, r.status)
       /\ UNCHANGED session

Analyze ==
  \E s \in Sessions, data \in AnalyzeData :
    \E solver \in IF data.method = "WLF" THEN WLFSolverOutcomes
                   ELSE ArrheniusSolverOutcomes :
      LET r == analyze(session[s], uploads, data, solver)
      IN /\ r.fit = "none" => solver = SolverRaised
         /\ session' = [session EXCEPT ![s] = r.session]
         /\ request' = [Request("analyze", s, r.status) EXCEPT
                          !.params = <<data>>, !.solver = solver, !.fit = r.fit]
         /\ UNCHANGED <<uploads, own>>

UpdateShiftFactor ==
  \E s \in Sessions, temperature \in UpdateTemps, log_aT \in UpdateLogs :
    LET r == update_shift_factor(session[s], temperature, log_aT)
    IN /\ session' = [session EXCEPT ![s] = r.session]
       /\ request' = [Request("update_shift_factor", s, r.status) EXCEPT
                        !.params = <<[temperature |-> temperature, log_aT |-> log_aT]>>]
       /\ UNCHANGED <<uploads, own>>

\* save_manual_adjustment: the client sends back the data of its session, the
\* entries of original_data in an order of its choosing.
SaveManualAdjustment ==
  \E s \in Sessions :
    /\ session[s].tts_data.present
    /\ \E original_data \in Orders(session[s].tts_data.original_data) :
         LET data == [session[s].tts_data EXCEPT !.original_data = original_data]
         IN request' = [Request("save_manual_adjustment", s, 200) EXCEPT
                          !.data = data,
                          !.master = export_manual_results(data).master]
    /\ UNCHANGED <<uploads, session, own>>

\* clear_uploads: every file of UPLOAD_FOLDER is removed, the session emptied.
ClearUploads ==
  \E s \in Sessions :
    /\ uploads' = {}
    /\ session' = [session EXCEPT ![s] = NoSession]
    /\ own' = [own EXCEPT ![s] = {}]
    /\ request' = Request("clear", s, 200)

\* One more request is answered.
Requested ==
  /\ calls < MaxCalls /\ calls' = calls + 1
  /\ UNCHANGED <<tts, last, overrides>>

Next ==
  \/ (Called /\ LoadExcel)
  \/ (Called /\ ShiftWLF)
  \/ (Called /\ ShiftArrhenius)
  \/ (Called /\ UpdateManualShift)
  \/ (Called /\ GetMasterCurveData)
  \/ (Called /\ ExportToExcel)

Spec == Init /\ [][Next]_vars

\* The web application alone: the requests of the clients, in any order.
NextApp ==
  \/ (Requested /\ Upload)
  \/ (Requested /\ Analyze)
  \/ (Requested /\ UpdateShiftFactor)
  \/ (Requested /\ SaveManualAdjustment)
  \/ (Requested /\ ClearUploads)

SpecApp == Init /\ [][NextApp]_vars

\* Ingestion alone, over folders that also hold files yielding no curve.
NextIngest == Called /\ Ingest

SpecIngest == Init /\ [][NextIngest]_vars

----------------------------------------------------------------------------
(* Properties *)

ShiftOps == {"shift_WLF", "shift_Arrhenius"}

\* The latest call was a shift operation that returned.
ShiftCompleted == last.op \in ShiftOps /\ last.raised = "None"

\* The factor table get_master_curve_data returns: temperature -> aT.
EffectiveFactors(self) ==
  LET sf == get_master_curve_data(self).shift_factors
  IN [T \in DOMAIN sf |-> sf[T].aT]

\* The closed forms, 1.0 at the reference temperature.
ExpectedWLF(T, T_ref, C1, C2) ==
  IF T = T_ref THEN One ELSE WLFNumpy(T, T_ref, C1, C2)

ExpectedArrhenius(T, T_ref, Ea) ==
  IF T = T_ref THEN One ELSE ArrheniusForm(T, T_ref, Ea).aT

\* C1: after a shift_WLF or shift_Arrhenius call that returned, whatever the
\* constants, the fit flag and the outcome of the fit, the computed table
\* holds aT = 1.0 (log_aT = 0) for T_ref when T_ref is a key of the dataset.
RefFactorIsOneAfterShift ==
  (ShiftCompleted /\ tts.T_ref \in Keys(tts.data)) =>
    /\ tts.T_ref \in DOMAIN tts.shift_factors
    /\ tts.shift_factors[tts.T_ref] = One
    /\ Log10(tts.shift_factors[tts.T_ref]) = 0

\* A shift whose fit succeeded, on a dataset that holds T_ref and two more
\* temperatures.
RefFactorWitness ==
  /\ ShiftCompleted
  /\ last.fit = "ok"
  /\ tts.T_ref \in Keys(tts.data)
  /\ Cardinality(Keys(tts.data)) = 3

\* C2: whenever T_ref is a dataset temperature, every table that holds an entry
\* for T_ref (computed, manual, and the effective table get_master_curve_data
\* returns) holds aT = 1.0 for it.
RefEntryIsOneInEveryTable ==
  tts.T_ref \in Keys(tts.data) =>
    \A table \in {tts.shift_factors, tts.shift_factors_manual, EffectiveFactors(tts)} :
      tts.T_ref \in DOMAIN table => table[tts.T_ref] = One

\* C3: for each dataset temperature the effective factor is the overridden
\* value if the temperature was overridden, else the value of the current
\* computed table (none when the computed table has none).
EffectiveIsPerTemperatureMerge ==
  LET eff == EffectiveFactors(tts)
  IN \A T \in Keys(tts.data) :
       IF T \in DOMAIN overrides
       THEN T \in DOMAIN eff /\ eff[T] = overrides[T]
       ELSE IF T \in DOMAIN tts.shift_factors
            THEN T \in DOMAIN eff /\ eff[T] = tts.shift_factors[T]
            ELSE T \notin DOMAIN eff

\* C4: a shift operation (returning or raising, first or repeated, either
\* method) leaves the manual table and the manual-adjustment flag as they were.
ShiftKeepsManualTable ==
  [][ last'.op \in ShiftOps =>
        /\ tts'.shift_factors_manual = tts.shift_factors_manual
        /\ tts'.manual_adjustment_done = tts.manual_adjustment_done ]_vars

\* A shift that returned on an engine holding an override, which is still in
\* the manual table.
ShiftKeepsManualWitness ==
  /\ ShiftCompleted
  /\ tts.manual_adjustment_done
  /\ DOMAIN overrides # {}
  /\ \A T \in DOMAIN overrides :
       T \in DOMAIN tts.shift_factors_manual /\ tts.shift_factors_manual[T] = overrides[T]
  /\ \E T \in DOMAIN overrides : tts.shift_factors[T] # overrides[T]

\* What a returned shift leaves of the invoked method: the method, a computed
\* factor for every dataset temperature that is the closed form at the
\* constants the engine reports, and the supplied constants unless a fit
\* succeeded.
WLFResultsOf(self, call) ==
  /\ self.shift_method = "WLF"
  /\ DOMAIN self.shift_factors = Keys(self.data)
  /\ \A T \in Keys(self.data) :
       self.shift_factors[T] = ExpectedWLF(T, self.T_ref, self.WLF_C1, self.WLF_C2)
  /\ call.fit # "ok" => (self.WLF_C1 = call.C1 /\ self.WLF_C2 = call.C2)

ArrheniusResultsOf(self, call) ==
  /\ self.shift_method = "Arrhenius"
  /\ DOMAIN self.shift_factors = Keys(self.data)
  /\ \A T \in Keys(self.data) :
       self.shift_factors[T] = ExpectedArrhenius(T, self.T_ref, self.Ea)
  /\ call.fit # "ok" => self.Ea = call.Ea

UnknownTemperatureIsRejected ==
  (last.op = "update_manual_shift" /\ last.T \notin Keys(tts.data)) =>
    /\ last.raised = "UnknownTemperatureError"
    /\ last.T \notin DOMAIN tts.shift_factors_manual

\* C7: get_master_curve_data and export_to_excel fail with a no-shift-computed
\* error on an engine on which no shift operation has run.
NoShiftIsAnError ==
  (last.op \in {"get_master_curve_data", "export_to_excel"} /\ tts.shift_method = "None") =>
    last.raised = "NoShiftComputedError"

\* C8: from every reachable engine state, update_manual_shift(T, v) applied
\* twice leaves the same manual table, flag and effective factors as applied
\* once.
OverrideIsIdempotent ==
  \A T \in OverrideTemps, v \in OverrideLogs :
    LET once == update_manual_shift(tts, T, v).self
        twice == update_manual_shift(once, T, v).self
    IN /\ twice.shift_factors_manual = once.shift_factors_manual
       /\ twice.manual_adjustment_done = once.manual_adjustment_done
       /\ EffectiveFactors(twice) = EffectiveFactors(once)
       /\ twice = once

\* The same override made twice in a row on a dataset temperature, recorded
\* over a computed table.
OverrideTwiceWitness ==
  /\ last.op = "update_manual_shift" /\ last.again /\ last.raised = "None"
  /\ last.T \in Keys(tts.data)
  /\ tts.manual_adjustment_done
  /\ tts.shift_factors_manual[last.T] = Pow10(last.v)

\* The table and constants a shift leaves when it stands on the supplied
\* constants.
StandsOnSupplied(self, call) ==
  /\ call.raised = "None"
  /\ DOMAIN self.shift_factors = Keys(self.data)
  /\ call.op = "shift_WLF" =>
       /\ self.WLF_C1 = call.C1 /\ self.WLF_C2 = call.C2
       /\ \A T \in Keys(self.data) :
            self.shift_factors[T] = ExpectedWLF(T, self.T_ref, call.C1, call.C2)
  /\ call.op = "shift_Arrhenius" =>
       /\ self.Ea = call.Ea
       /\ \A T \in Keys(self.data) :
            self.shift_factors[T] = ExpectedArrhenius(T, self.T_ref, call.Ea)

\* A requested fit was not performed for lack of temperatures, or failed.
FitNotDone(self, call) ==
  /\ call.op \in ShiftOps
  /\ self.T_ref # None
  /\ call.fit_flag
  /\ (Cardinality(NonRef(self)) < 2 \/ call.fit = "raised")

ClosedFormDefined(self, call) ==
  \A T \in NonRef(self) :
    /\ call.op = "shift_WLF" =>
         /\ call.C2 + T - self.T_ref # 0
         /\ ~PowOverflows(Quot((0 - call.C1) * (T - self.T_ref), call.C2 + T - self.T_ref))
    /\ call.op = "shift_Arrhenius" =>
         (T + KelvinOffset # 0 /\ self.T_ref + KelvinOffset # 0)

ValidRecord(file) ==
  /\ _extract_temperature(file.stem) # None
  /\ file.kind = "rows"
  /\ KeptRows(file.rows) # <<>>

ValidTemperatures(folder) ==
  {_extract_temperature(f.stem) : f \in {g \in folder : ValidRecord(g)}}

\* C10: load_excel fails with a no-data error exactly when no record of the
\* folder yields a valid curve; when it returns, the temperature of every
\* valid record is a key of the dataset.
IngestionFailsIffNoValidRecord ==
  last.op = "load_excel" =>
    LET valid == ValidTemperatures({f \in Files : f.stem \in last.folder})
    IN /\ (last.raised \in {"ValueError", "FileNotFoundError"}) <=> (valid = {})
       /\ last.raised = "None" => valid \subseteq Keys(tts.data)

\* C11: after an ingestion, every temperature that is a key of the dataset has
\* a non-empty curve whose omega and modulus sequences have the same length and
\* hold no NaN.
EveryCurveIsNonEmptyAndClean ==
  last.op = "load_excel" =>
    \A i \in 1..Len(tts.data) :
      /\ Len(tts.data[i].omega) > 0
      /\ Len(tts.data[i].omega) = Len(tts.data[i].modulus)
      /\ \A j \in 1..Len(tts.data[i].omega) :
           tts.data[i].omega[j] # NaN /\ tts.data[i].modulus[j] # NaN

\* What get_master_curve_data returns is a horizontal shift of the dataset:
\* for every dataset temperature with an effective factor, as many points as
\* the curve has, each omega multiplied by the factor, each modulus as
\* measured; the originals are the curves themselves.
IsHorizontalShift(self, result) ==
  /\ result.raised = "None"
  /\ DOMAIN result.original = Keys(self.data)
  /\ DOMAIN result.shifted = Keys(self.data) \cap DOMAIN EffectiveFactors(self)
  /\ \A T \in DOMAIN result.original :
       /\ result.original[T].omega = Curve(self.data, T).omega
       /\ result.original[T].modulus = Curve(self.data, T).modulus
  /\ \A T \in DOMAIN result.shifted :
       LET aT == EffectiveFactors(self)[T]
           curve == Curve(self.data, T)
       IN /\ Len(result.shifted[T].omega) = Len(curve.omega)
          /\ Len(result.shifted[T].modulus) = Len(curve.modulus)
          /\ \A i \in 1..Len(curve.omega) :
               result.shifted[T].omega[i] = (IF aT = Inf THEN Inf ELSE curve.omega[i] * aT)
          /\ result.shifted[T].modulus = curve.modulus

\* C12: a call of get_master_curve_data returns a horizontal shift of the
\* dataset by the effective factors and leaves the engine (dataset, computed
\* table, manual table, method, constants) as it was.
AssemblyIsPureShift ==
  [][last'.op = "get_master_curve_data" =>
       /\ IsHorizontalShift(tts, get_master_curve_data(tts))
       /\ tts' = tts]_vars

\* get_master_curve_data was called on an engine holding a curve with points
\* and an effective factor other than 1 for it.
AssemblyWitness ==
  /\ last.op = "get_master_curve_data"
  /\ \E T \in Keys(tts.data) \cap DOMAIN EffectiveFactors(tts) :
       /\ EffectiveFactors(tts)[T] \notin {One, Zero, Inf}
       /\ Len(Curve(tts.data, T).omega) > 0

\* The sample points of a sequence of curves [T, omega, modulus], grouped by
\* temperature in ascending order and, within a temperature, in the order of
\* the curve: <<T, omega, modulus>> of every point.
RECURSIVE SamplesInOrder(_, _)
SamplesInOrder(curves, temps) ==
  IF temps = <<>> THEN <<>>
  ELSE LET c == curves[CHOOSE i \in 1..Len(curves) : curves[i].T = Head(temps)]
       IN [i \in 1..Len(c.omega) |-> <<c.T, c.omega[i], c.modulus[i]>>]
          \o SamplesInOrder(curves, Tail(temps))

ExpectedSamples(curves) ==
  SamplesInOrder(curves, Sorted({curves[i].T : i \in 1..Len(curves)}))

SamplesOf(rows) == [i \in 1..Len(rows) |-> <<rows[i].T, rows[i].omega, rows[i].modulus>>]

\* The curves of a payload, with the temperature float(temp_str) reads.
PayloadCurves(original_data) ==
  [i \in 1..Len(original_data) |->
     [T |-> Float(original_data[i].key),
      omega |-> original_data[i].omega,
      modulus |-> original_data[i].modulus]]

EngineExportIsOrdered ==
  SamplesOf(export_to_excel(tts).master) = ExpectedSamples(tts.data)

ManualExportIsOrdered ==
  request.op = "save_manual_adjustment" =>
    SamplesOf(request.master) = ExpectedSamples(PayloadCurves(request.data.original_data))

\* C13: the per-sample rows of an export are the sample points grouped by
\* temperature in ascending order and in sample order within a temperature,
\* one row per point, for export_to_excel on every engine and for
\* export_manual_results on every payload.
ExportRowsAreOrdered == EngineExportIsOrdered /\ ManualExportIsOrdered

\* C14: in every reachable engine state the (temperature, aT) entries of the
\* factor table get_master_curve_data returns are the pairs export_to_excel
\* writes in its shift-factor rows, and every per-sample row of a temperature
\* carries the aT that table holds for it.
AssemblyAndExportAgree ==
  LET assembled == EffectiveFactors(tts)
      exported == export_to_excel(tts)
  IN /\ {<<T, assembled[T]>> : T \in DOMAIN assembled}
          = {<<exported.shift[i].T, exported.shift[i].aT>> : i \in 1..Len(exported.shift)}
     /\ \A i \in 1..Len(exported.master) :
          /\ exported.master[i].T \in DOMAIN assembled
          /\ exported.master[i].aT = assembled[exported.master[i].T]

\* C15: what a session's analyze answers and stores is what the same request
\* gives on a folder holding the files that session uploaded (since it last
\* cleared), whatever the other sessions have requested in between.
AnalysisDependsOnOwnSession ==
  request.op = "analyze" =>
    LET alone == analyze(NoSession, own[request.sid], request.params[1], request.solver)
    IN /\ request.status = alone.status
       /\ request.status = 200 => session[request.sid] = alone.session

\* C16: a shift_WLF or shift_Arrhenius call that raises leaves shift_method,
\* the computed table, the reported constants and the manual table as they
\* were before the call.
FailedShiftChangesNothing ==
  [][(last'.op \in ShiftOps /\ last'.raised # "None") =>
       /\ tts'.shift_method = tts.shift_method
       /\ tts'.shift_factors = tts.shift_factors
       /\ tts'.WLF_C1 = tts.WLF_C1 /\ tts'.WLF_C2 = tts.WLF_C2 /\ tts'.Ea = tts.Ea
       /\ tts'.shift_factors_manual = tts.shift_factors_manual
       /\ tts'.manual_adjustment_done = tts.manual_adjustment_done]_vars

\* C17 as stated: in every reachable engine state the keys of the computed
\* table and of the manual table are dataset temperatures, and the
\* manual-adjustment flag is true exactly when the manual table is non-empty.
TablesWithinDatasetAndFlagExact ==
  /\ DOMAIN tts.shift_factors \subseteq Keys(tts.data)
  /\ DOMAIN tts.shift_factors_manual \subseteq Keys(tts.data)
  /\ tts.manual_adjustment_done <=> (DOMAIN tts.shift_factors_manual # {})

====
